---- MODULE Spec2Model ----
(***************************************************************************)
(* A model of sync.py: the watchdog handler FTPUploader.on_modified, the   *)
(* remote probe (remote_file_exists, download_remote_file), the byte       *)
(* comparison, the interactive resolve_conflict loop and the upload with   *)
(* its single mkdir retry.                                                 *)
(*                                                                         *)
(* Strings are sequences of tokens: "a.txt" is <<"a", ".txt">> and the     *)
(* path "/loc/sub/a.txt" is <<"/", "loc", "/", "sub", "/", "a", ".txt">>.  *)
(* Substring tests, prefix tests, splitext, basename, dirname and relpath  *)
(* are computed on these sequences the way Python computes them on         *)
(* characters.                                                             *)
(***************************************************************************)
EXTENDS Integers, Sequences, FiniteSets, TLC

VARIABLES
    ignore_patterns,    \* the module global IGNORE_PATTERNS, loaded from the config
    check_conflicts,    \* FTPUploader.check_conflicts
    session_overrides,  \* keys of FTPUploader.session_overrides
    disk,               \* local filesystem: path -> bytes, or Absent
    remote,             \* remote filesystem: <<remote dir, filename>> -> bytes, or Absent
    remote_dirs,        \* remote directories that exist
    pc,                 \* per handler invocation: the position in on_modified
    event,              \* per handler invocation: the event being handled
    remote_temp_path,   \* on_modified's local remote_temp_path (line 293)
    rc_temp_path,       \* resolve_conflict's local remote_temp_path (line 211)
    action,             \* on_modified's local action (line 304)
    result,             \* on_modified's local result (line 329)
    retry_result,       \* on_modified's local retry_result (line 344)
    calls,              \* per invocation: subprocess runs and input() calls, in order
    log                 \* per invocation: the lines printed, in order

vars == <<ignore_patterns, check_conflicts, session_overrides, disk, remote, remote_dirs, pc, event,
          remote_temp_path, rc_temp_path, action, result, retry_result, calls, log>>

-----------------------------------------------------------------------------
(* Bounds *)

\* the operator gives at most this many invalid answers to one prompt
MaxInvalid == 2

-----------------------------------------------------------------------------
(* Values *)

Absent == "absent"
None == <<"None">>
Contents == {"c1", "c2"}

\* the observer's dispatching thread runs every on_modified call
Dispatcher == "h1"
Handlers == {"h1", "h2"}

SEP == "/"
MARKER == "_remote_temp"
COPY_SUFFIX == "_remote"
DotTokens == {".txt", ".log"}

LOCAL_DIR == <<"/", "loc">>
REMOTE_DIR == <<"/", "rem">>
\* the ignore list of the configuration the session runs with
IGNORE_PATTERNS == << <<"build", "/">>, <<"*", ".log">> >>

-----------------------------------------------------------------------------
(* String and path functions *)

Max(S) == CHOOSE x \in S : \A y \in S : y <= x

\* s[from..] of a Python string
Tail_from(s, from) == SubSeq(s, from, Len(s))

\* Python: sub in s
Contains(s, sub) ==
    \E i \in 1..(Len(s) - Len(sub) + 1) : SubSeq(s, i, i + Len(sub) - 1) = sub

\* Python: s.startswith(pre)
StartsWith(s, pre) == Len(pre) <= Len(s) /\ SubSeq(s, 1, Len(pre)) = pre

\* Python: s.endswith('/')
EndsWithSep(s) == Len(s) > 0 /\ s[Len(s)] = SEP

\* Python: s.rstrip('/')
RECURSIVE rstrip_sep(_)
rstrip_sep(s) == IF EndsWithSep(s) THEN rstrip_sep(SubSeq(s, 1, Len(s) - 1)) ELSE s

SepPositions(p) == {i \in 1..Len(p) : p[i] = SEP}

\* os.path.basename
basename(p) ==
    IF SepPositions(p) = {} THEN p ELSE Tail_from(p, Max(SepPositions(p)) + 1)

\* os.path.dirname
dirname(p) ==
    IF SepPositions(p) = {} THEN <<>>
    ELSE LET i == Max(SepPositions(p))
         IN  IF i = 1 THEN <<SEP>> ELSE SubSeq(p, 1, i - 1)

\* os.path.join(a, b) for a relative b
join(a, b) ==
    IF a = <<>> THEN b
    ELSE IF EndsWithSep(a) THEN a \o b ELSE a \o <<SEP>> \o b

\* os.path.relpath(p, start) for p below start
relpath(p, start) == Tail_from(p, Len(start) + 2)

\* os.path.isabs
isabs(p) == Len(p) > 0 /\ p[1] = SEP

\* os.path.splitext: the extension starts at the last dot, leading dots do not count
splitext(f) ==
    LET dots == {i \in 1..Len(f) : f[i] \in DotTokens /\ \E j \in 1..(i - 1) : f[j] \notin DotTokens}
    IN  IF dots = {} THEN <<f, <<>>>>
        ELSE <<SubSeq(f, 1, Max(dots) - 1), Tail_from(f, Max(dots))>>

\* fnmatch.fnmatch with the pattern token "*" matching any run of tokens
RECURSIVE fnmatch(_, _)
fnmatch(s, pat) ==
    IF pat = <<>> THEN s = <<>>
    ELSE IF Head(pat) = "*"
         THEN \E k \in 0..Len(s) : fnmatch(Tail_from(s, k + 1), Tail(pat))
         ELSE s # <<>> /\ Head(s) = Head(pat) /\ fnmatch(Tail(s), Tail(pat))

-----------------------------------------------------------------------------
(* The files of the model *)

A_TXT == <<"a", ".txt">>
SUB == <<"sub">>

\* the local files the operator edits
UserFiles == {join(LOCAL_DIR, A_TXT), join(join(LOCAL_DIR, SUB), A_TXT)}

\* the names the remote side holds
RemoteNames == {A_TXT}
RemoteDirs == {rstrip_sep(REMOTE_DIR), join(REMOTE_DIR, SUB)}
RemoteFiles == RemoteDirs \X RemoteNames

NoEvent == [is_directory |-> FALSE, src_path |-> <<>>]

\* the events the watchdog observer delivers: the user files, a file matched by a
\* glob pattern, a file below an ignored directory, a comparison artifact, a directory
Events ==
    {[is_directory |-> FALSE, src_path |-> p] :
        p \in UserFiles \cup {join(LOCAL_DIR, <<"x", ".log">>),
                              join(join(LOCAL_DIR, <<"build">>), A_TXT),
                              join(LOCAL_DIR, <<"a", MARKER, ".txt">>)}}
    \cup {[is_directory |-> TRUE, src_path |-> join(LOCAL_DIR, SUB)]}

\* how a subprocess.run of lftp ends: exit 0, exit 1, or never (no timeout is passed)
Outcomes == {"ok", "fail", "hang"}

\* one entry of calls: the command run and what it returned (the exit status of
\* lftp, -1 while it has not returned; the digit the operator typed, 0 for any
\* other input)
Call(cmd, ret) == [cmd |-> cmd, ret |-> ret]

returncode(o) == IF o = "ok" THEN 0 ELSE IF o = "fail" THEN 1 ELSE -1

-----------------------------------------------------------------------------
(* The path mapping of on_modified and the derived names *)

filename_of(e) == basename(e.src_path)

rel_path_of(e) == relpath(e.src_path, LOCAL_DIR)

remote_path_of(e) ==
    LET rel_dir == dirname(rel_path_of(e))
    IN  IF rel_dir # <<>> THEN join(REMOTE_DIR, rel_dir) ELSE rstrip_sep(REMOTE_DIR)

\* download_remote_file: the comparison artifact's path
temp_path_of(filename, local_file_path) ==
    LET ne == splitext(filename)
    IN  join(dirname(local_file_path), ne[1] \o <<MARKER>> \o ne[2])

\* resolve_conflict, choice 4: the saved copy's path
remote_copy_path_of(filename, local_path) ==
    LET ne == splitext(filename)
    IN  join(dirname(local_path), ne[1] \o <<COPY_SUFFIX>> \o ne[2])

\* the local paths the model keeps bytes for
LocalPaths ==
    UserFiles
    \cup {temp_path_of(basename(p), p) : p \in UserFiles}
    \cup {remote_copy_path_of(basename(p), p) : p \in UserFiles}

Artifacts == {p \in LocalPaths : Contains(basename(p), <<MARKER>>)}

\* a directory pattern tested as a bare string prefix, without the separator
is_ignored_bare_prefix(rel_path, filename, abs_path) ==
    /\ ignore_patterns # <<>>
    /\ \E i \in 1..Len(ignore_patterns) :
          LET pat == ignore_patterns[i]
          IN  /\ pat # <<>>
              /\ \/ /\ EndsWithSep(pat)
                    /\ StartsWith(rel_path, rstrip_sep(pat))
                 \/ fnmatch(rel_path, pat)
                 \/ fnmatch(filename, pat)
                 \/ (isabs(pat) /\ StartsWith(abs_path, pat))

is_ignored(rel_path, filename, abs_path) ==
    /\ ignore_patterns # <<>>
    /\ \E i \in 1..Len(ignore_patterns) :
          LET pat == ignore_patterns[i]
          IN  /\ pat # <<>>
              /\ \/ /\ EndsWithSep(pat)
                    /\ LET prefix == rstrip_sep(pat)
                       IN  rel_path = prefix \/ StartsWith(rel_path, prefix \o <<SEP>>)
                 \/ fnmatch(rel_path, pat)
                 \/ fnmatch(filename, pat)
                 \/ (isabs(pat) /\ StartsWith(abs_path, pat))

-----------------------------------------------------------------------------
(* The transfer client and the filesystem, as the handler sees them *)

NoResult == [returncode |-> -1, stderr |-> ""]

remote_get(remote_path, filename) ==
    IF <<remote_path, filename>> \in RemoteFiles THEN remote[<<remote_path, filename>>]
    ELSE Absent

\* the lines "cd remote_path; ls" prints
listing(remote_path) ==
    IF remote_path \in remote_dirs
    THEN {n \in RemoteNames : remote[<<remote_path, n>>] # Absent}
    ELSE {}

\* a probe that forgets the exit status
remote_file_exists_any_rc(o, remote_path, filename) ==
    \E line \in listing(remote_path) : Contains(line, filename)

\* remote_file_exists: exit 0 and some listing line contains the filename
remote_file_exists(o, remote_path, filename) ==
    /\ o = "ok"
    /\ \E line \in listing(remote_path) : Contains(line, filename)

\* what a get that exits 1 midway leaves under the -o path
PARTIAL == "partial"

\* the disk after lftp ran "get filename -o temp_path": the remote bytes on exit 0,
\* a partial file on exit 1 of an existing remote file, nothing otherwise
after_lftp_get(o, remote_path, filename, temp_path) ==
    IF remote_get(remote_path, filename) = Absent THEN disk
    ELSE IF o = "ok" THEN [disk EXCEPT ![temp_path] = remote_get(remote_path, filename)]
    ELSE [disk EXCEPT ![temp_path] = PARTIAL]

\* a download that returns None on a failure without removing what lftp left
download_remote_file_keeps_partial(o, remote_path, filename, local_file_path) ==
    LET temp_path == temp_path_of(filename, local_file_path)
        after_get == after_lftp_get(o, remote_path, filename, temp_path)
    IN  IF o = "ok" /\ after_get[temp_path] # Absent
        THEN [disk |-> after_get, ret |-> temp_path]
        ELSE [disk |-> after_get, ret |-> None]

\* download_remote_file: the disk after "get -o temp_path" and the cleanup, and the
\* value returned. An exit 0 without a file (lines 165-168) and an exit 1 (lines
\* 170-172) both return None and leave no artifact.
download_remote_file(o, remote_path, filename, local_file_path) ==
    LET temp_path == temp_path_of(filename, local_file_path)
        after_get == after_lftp_get(o, remote_path, filename, temp_path)
    IN  IF o = "ok"
        THEN IF after_get[temp_path] # Absent
             THEN [disk |-> after_get, ret |-> temp_path]
             ELSE [disk |-> after_get, ret |-> None]
        ELSE [disk |-> [after_get EXCEPT ![temp_path] = Absent], ret |-> None]

\* a comparison that never finds two files equal
files_never_identical(local_path, temp_path) == FALSE

\* files_are_identical: both files read as bytes; any exception gives False
files_are_identical(local_path, temp_path) ==
    /\ disk[local_path] # Absent
    /\ disk[temp_path] # Absent
    /\ disk[local_path] = disk[temp_path]

\* os.unlink(p) and os.replace(p, q) raise OSError when p is missing or the
\* filesystem refuses (fs_ok = FALSE)
fs_succeeds(fs_ok, p) == fs_ok /\ disk[p] # Absent

\* an unlink that leaves the file
unlinked_kept(p) == disk

unlinked(p) == [disk EXCEPT ![p] = Absent]

\* a replace that copies and stops midway
replaced_writes_partial(p, q) == [disk EXCEPT ![q] = PARTIAL, ![p] = Absent]

replaced(p, q) == [disk EXCEPT ![q] = disk[p], ![p] = Absent]

\* "cd remote_path; put src_path": exit 0 needs the remote directory
put_succeeds(o, remote_path) == o = "ok" /\ remote_path \in remote_dirs

-----------------------------------------------------------------------------
(* Initial state: FTPUploader.__init__, an empty remote root, the user files *)

\* no invocation of on_modified has begun
handlers_idle ==
    /\ pc = [t \in Handlers |-> "idle"]
    /\ event = [t \in Handlers |-> NoEvent]
    /\ remote_temp_path = [t \in Handlers |-> None]
    /\ rc_temp_path = [t \in Handlers |-> None]
    /\ action = [t \in Handlers |-> "none"]
    /\ result = [t \in Handlers |-> NoResult]
    /\ retry_result = [t \in Handlers |-> NoResult]
    /\ calls = [t \in Handlers |-> <<>>]
    /\ log = [t \in Handlers |-> <<>>]

\* a session that has handled no event yet
fresh_session ==
    /\ check_conflicts \in BOOLEAN
    /\ session_overrides = {}
    /\ disk = [p \in LocalPaths |-> IF p \in UserFiles THEN "c1" ELSE Absent]
    /\ remote = [f \in RemoteFiles |-> Absent]
    /\ remote_dirs = {rstrip_sep(REMOTE_DIR)}
    /\ handlers_idle

Init ==
    /\ ignore_patterns = IGNORE_PATTERNS
    /\ fresh_session

-----------------------------------------------------------------------------
(* on_modified, lines 260-289: the gates and the session-override check *)

\* an entry that forgets the session overrides
entry_pc_no_override(e) ==
    IF e.is_directory THEN "returned"
    ELSE IF Contains(filename_of(e), <<MARKER>>) THEN "returned"
    ELSE IF is_ignored(rel_path_of(e), filename_of(e), e.src_path) THEN "returned"
    ELSE IF ~check_conflicts THEN "upload"
    ELSE "probe"

\* an entry that checks for conflicts whatever the mode
entry_pc_always_checks(e) ==
    IF e.is_directory THEN "returned"
    ELSE IF Contains(filename_of(e), <<MARKER>>) THEN "returned"
    ELSE IF is_ignored(rel_path_of(e), filename_of(e), e.src_path) THEN "returned"
    ELSE IF filename_of(e) \in session_overrides THEN "upload"
    ELSE "probe"

\* an entry without the gate on the comparison artifact's marker
entry_pc_no_marker_gate(e) ==
    IF e.is_directory THEN "returned"
    ELSE IF is_ignored(rel_path_of(e), filename_of(e), e.src_path) THEN "returned"
    ELSE IF ~check_conflicts THEN "upload"
    ELSE IF filename_of(e) \in session_overrides THEN "upload"
    ELSE "probe"

\* an entry that looks the session override up by the mapped relative path
entry_pc_keyed_by_path(e) ==
    IF e.is_directory THEN "returned"
    ELSE IF Contains(filename_of(e), <<MARKER>>) THEN "returned"
    ELSE IF is_ignored(rel_path_of(e), filename_of(e), e.src_path) THEN "returned"
    ELSE IF ~check_conflicts THEN "upload"
    ELSE IF rel_path_of(e) \in session_overrides THEN "upload"
    ELSE "probe"

\* the position after the gates of lines 261-280 and the branch of lines 285-290
entry_pc(e) ==
    IF e.is_directory THEN "returned"
    ELSE IF Contains(filename_of(e), <<MARKER>>) THEN "returned"
    ELSE IF is_ignored(rel_path_of(e), filename_of(e), e.src_path) THEN "returned"
    ELSE IF ~check_conflicts THEN "upload"
    ELSE IF filename_of(e) \in session_overrides THEN "upload"
    ELSE "probe"

entry_log(e) ==
    IF e.is_directory \/ Contains(filename_of(e), <<MARKER>>) THEN <<>>
    ELSE IF is_ignored(rel_path_of(e), filename_of(e), e.src_path)
         THEN <<"Skipping ignored path">>
    ELSE IF check_conflicts /\ filename_of(e) \in session_overrides
         THEN <<"Processing", "Auto-overriding (session choice)">>
    ELSE <<"Processing">>

\* the invocations that are between their entry and their return
InFlight == {t \in Handlers : pc[t] \notin {"idle", "returned", "raised", "hung"}}

\* an entry that waits while another invocation handles the same filename
on_modified_serialized(t, e) ==
    /\ pc[t] \in {"idle", "returned"}
    /\ \A u \in InFlight : filename_of(event[u]) # filename_of(e)
    /\ event' = [event EXCEPT ![t] = e]
    /\ pc' = [pc EXCEPT ![t] = entry_pc(e)]
    /\ log' = [log EXCEPT ![t] = entry_log(e)]
    /\ calls' = [calls EXCEPT ![t] = <<>>]
    /\ remote_temp_path' = [remote_temp_path EXCEPT ![t] = None]
    /\ rc_temp_path' = [rc_temp_path EXCEPT ![t] = None]
    /\ action' = [action EXCEPT ![t] = "none"]
    /\ result' = [result EXCEPT ![t] = NoResult]
    /\ retry_result' = [retry_result EXCEPT ![t] = NoResult]
    /\ UNCHANGED <<ignore_patterns, check_conflicts, session_overrides, disk, remote, remote_dirs>>

on_modified(t, e) ==
    /\ pc[t] \in {"idle", "returned"}
    /\ event' = [event EXCEPT ![t] = e]
    /\ pc' = [pc EXCEPT ![t] = entry_pc(e)]
    /\ log' = [log EXCEPT ![t] = entry_log(e)]
    /\ calls' = [calls EXCEPT ![t] = <<>>]
    /\ remote_temp_path' = [remote_temp_path EXCEPT ![t] = None]
    /\ rc_temp_path' = [rc_temp_path EXCEPT ![t] = None]
    /\ action' = [action EXCEPT ![t] = "none"]
    /\ result' = [result EXCEPT ![t] = NoResult]
    /\ retry_result' = [retry_result EXCEPT ![t] = NoResult]
    /\ UNCHANGED <<ignore_patterns, check_conflicts, session_overrides, disk, remote, remote_dirs>>

-----------------------------------------------------------------------------
(* on_modified, lines 290-317: probe, fetch, compare *)

probe(t, o) ==
    /\ pc[t] = "probe"
    /\ calls' = [calls EXCEPT ![t] = Append(@, Call("ls", returncode(o)))]
    /\ IF o = "hang"
       THEN /\ pc' = [pc EXCEPT ![t] = "hung"]
            /\ UNCHANGED log
       ELSE IF remote_file_exists(o, remote_path_of(event[t]), filename_of(event[t]))
       THEN /\ pc' = [pc EXCEPT ![t] = "fetch"]
            /\ log' = [log EXCEPT ![t] = Append(@, "Remote file exists. Downloading")]
       ELSE /\ pc' = [pc EXCEPT ![t] = "upload"]
            /\ log' = [log EXCEPT ![t] = Append(@, "No remote file found")]
    /\ UNCHANGED <<ignore_patterns, check_conflicts, session_overrides, disk, remote, remote_dirs, event,
                   remote_temp_path, rc_temp_path, action, result, retry_result>>

fetch(t, o) ==
    /\ pc[t] = "fetch"
    /\ calls' = [calls EXCEPT ![t] = Append(@, Call("get", returncode(o)))]
    /\ IF o = "hang"
       THEN /\ pc' = [pc EXCEPT ![t] = "hung"]
            /\ UNCHANGED <<disk, remote_temp_path, log>>
       ELSE LET d == download_remote_file(o, remote_path_of(event[t]),
                                          filename_of(event[t]), event[t].src_path)
            IN  /\ disk' = d.disk
                /\ remote_temp_path' = [remote_temp_path EXCEPT ![t] = d.ret]
                /\ IF d.ret # None
                   THEN /\ pc' = [pc EXCEPT ![t] = "compare"]
                        /\ UNCHANGED log
                   ELSE /\ pc' = [pc EXCEPT ![t] = "upload"]
                        /\ log' = [log EXCEPT ![t] = Append(@, "Failed to download remote file")]
    /\ UNCHANGED <<ignore_patterns, check_conflicts, session_overrides, remote, remote_dirs, event,
                   rc_temp_path, action, result, retry_result>>

\* lines 296-303: the comparison and the unlink of the artifact on either branch
compare(t, fs_ok) ==
    /\ pc[t] = "compare"
    /\ LET same == files_are_identical(event[t].src_path, remote_temp_path[t])
           msg == IF same THEN "Files are identical. Skipping upload" ELSE "Files differ"
       IN  /\ log' = [log EXCEPT ![t] = Append(@, msg)]
           /\ IF fs_succeeds(fs_ok, remote_temp_path[t])
              THEN /\ disk' = unlinked(remote_temp_path[t])
                   /\ pc' = [pc EXCEPT ![t] = IF same THEN "returned" ELSE "resolve"]
              ELSE /\ pc' = [pc EXCEPT ![t] = "raised"]
                   /\ UNCHANGED disk
    /\ UNCHANGED <<ignore_patterns, check_conflicts, session_overrides, remote, remote_dirs, event,
                   remote_temp_path, rc_temp_path, action, result, retry_result, calls>>

-----------------------------------------------------------------------------
(* resolve_conflict, lines 206-258, with the branch on its result, lines 304-313 *)

\* show_file_diff: the lines printed for two text files
show_file_diff(fs, local_path, temp_path) ==
    IF fs[local_path] = fs[temp_path]
    THEN <<"=== DIFFERENCES ===", "Files are identical in content.">>
    ELSE <<"=== DIFFERENCES ===", "unified diff">>

\* lines 208-213: the resolver fetches the remote file again and shows the diff
resolve(t, o) ==
    /\ pc[t] = "resolve"
    /\ calls' = [calls EXCEPT ![t] = Append(@, Call("get", returncode(o)))]
    /\ IF o = "hang"
       THEN /\ pc' = [pc EXCEPT ![t] = "hung"]
            /\ log' = [log EXCEPT ![t] = Append(@, "CONFLICT DETECTED")]
            /\ UNCHANGED <<disk, rc_temp_path>>
       ELSE LET d == download_remote_file(o, remote_path_of(event[t]),
                                          filename_of(event[t]), event[t].src_path)
            IN  /\ disk' = d.disk
                /\ rc_temp_path' = [rc_temp_path EXCEPT ![t] = d.ret]
                /\ pc' = [pc EXCEPT ![t] = "prompt"]
                /\ log' = [log EXCEPT ![t] =
                      Append(@, "CONFLICT DETECTED")
                      \o (IF d.ret # None
                          THEN show_file_diff(d.disk, event[t].src_path, d.ret)
                          ELSE <<>>)]
    /\ UNCHANGED <<ignore_patterns, check_conflicts, session_overrides, remote, remote_dirs, event,
                   remote_temp_path, action, result, retry_result>>

\* a caller that uploads after "download"
after_resolve_pc_uploads_download(act) == IF act = "cancel" THEN "returned" ELSE "upload"

\* lines 305-313: on_modified stops on "cancel" and "download", uploads otherwise
after_resolve_pc(act) == IF act \in {"cancel", "download"} THEN "returned" ELSE "upload"

Invalids(t) == Cardinality({i \in 1..Len(log[t]) : log[t][i] = "Invalid choice"})

\* an unrecognised input that ends the loop as a cancel does
choice_invalid_cancels(t) ==
    /\ pc[t] = "prompt"
    /\ Invalids(t) < MaxInvalid
    /\ calls' = [calls EXCEPT ![t] = Append(@, Call("input", 0))]
    /\ log' = [log EXCEPT ![t] = Append(@, "Invalid choice")]
    /\ disk' = IF rc_temp_path[t] = None THEN disk ELSE unlinked(rc_temp_path[t])
    /\ pc' = [pc EXCEPT ![t] = "returned"]
    /\ UNCHANGED <<ignore_patterns, check_conflicts, session_overrides, remote, remote_dirs, event,
                   remote_temp_path, rc_temp_path, action, result, retry_result>>

\* line 258: any other input prints a notice and the loop prompts again
choice_invalid(t) ==
    /\ pc[t] = "prompt"
    /\ Invalids(t) < MaxInvalid
    /\ calls' = [calls EXCEPT ![t] = Append(@, Call("input", 0))]
    /\ log' = [log EXCEPT ![t] = Append(@, "Invalid choice")]
    /\ UNCHANGED <<ignore_patterns, check_conflicts, session_overrides, disk, remote, remote_dirs, pc, event,
                   remote_temp_path, rc_temp_path, action, result, retry_result>>

\* choice "1", lines 224-230: remember the filename, unlink the artifact, upload
choice_upload(t, fs_ok) ==
    /\ pc[t] = "prompt"
    /\ calls' = [calls EXCEPT ![t] = Append(@, Call("input", 1))]
    /\ session_overrides' = session_overrides \cup {filename_of(event[t])}
    /\ log' = [log EXCEPT ![t] = Append(@, "Will always override for this session")]
    /\ IF rc_temp_path[t] = None
       THEN /\ action' = [action EXCEPT ![t] = "upload"]
            /\ pc' = [pc EXCEPT ![t] = after_resolve_pc("upload")]
            /\ UNCHANGED disk
       ELSE IF fs_succeeds(fs_ok, rc_temp_path[t])
       THEN /\ disk' = unlinked(rc_temp_path[t])
            /\ action' = [action EXCEPT ![t] = "upload"]
            /\ pc' = [pc EXCEPT ![t] = after_resolve_pc("upload")]
       ELSE /\ pc' = [pc EXCEPT ![t] = "raised"]
            /\ UNCHANGED <<disk, action>>
    /\ UNCHANGED <<ignore_patterns, check_conflicts, remote, remote_dirs, event, remote_temp_path,
                   rc_temp_path, result, retry_result>>

\* a choice "2" that swallows the OSError of os.replace and goes on to the upload
choice_download_swallows(t, fs_ok) ==
    /\ pc[t] = "prompt"
    /\ calls' = [calls EXCEPT ![t] = Append(@, Call("input", 2))]
    /\ IF rc_temp_path[t] = None
       THEN /\ action' = [action EXCEPT ![t] = "download"]
            /\ pc' = [pc EXCEPT ![t] = "returned"]
            /\ UNCHANGED <<disk, log>>
       ELSE IF fs_succeeds(fs_ok, rc_temp_path[t])
       THEN /\ disk' = replaced(rc_temp_path[t], event[t].src_path)
            /\ log' = [log EXCEPT ![t] = Append(@, "Local file updated with remote content")]
            /\ action' = [action EXCEPT ![t] = "download"]
            /\ pc' = [pc EXCEPT ![t] = "returned"]
       ELSE /\ pc' = [pc EXCEPT ![t] = "upload"]
            /\ UNCHANGED <<disk, action, log>>
    /\ UNCHANGED <<ignore_patterns, check_conflicts, session_overrides, remote, remote_dirs, event,
                   remote_temp_path, rc_temp_path, result, retry_result>>

\* choice "2", lines 231-237 and 307-309: replace the local file by the artifact, stop
choice_download(t, fs_ok) ==
    /\ pc[t] = "prompt"
    /\ calls' = [calls EXCEPT ![t] = Append(@, Call("input", 2))]
    /\ IF rc_temp_path[t] = None
       THEN /\ action' = [action EXCEPT ![t] = "download"]
            /\ pc' = [pc EXCEPT ![t] = after_resolve_pc("download")]
            /\ UNCHANGED <<disk, log>>
       ELSE IF fs_succeeds(fs_ok, rc_temp_path[t])
       THEN /\ disk' = replaced(rc_temp_path[t], event[t].src_path)
            /\ log' = [log EXCEPT ![t] = Append(@, "Local file updated with remote content")]
            /\ action' = [action EXCEPT ![t] = "download"]
            /\ pc' = [pc EXCEPT ![t] = after_resolve_pc("download")]
       ELSE /\ pc' = [pc EXCEPT ![t] = "raised"]
            /\ UNCHANGED <<disk, action, log>>
    /\ UNCHANGED <<ignore_patterns, check_conflicts, session_overrides, remote, remote_dirs, event,
                   remote_temp_path, rc_temp_path, result, retry_result>>

\* a cancel that remembers the filename as choice "1" does
choice_cancel_remembers(t, fs_ok) ==
    /\ pc[t] = "prompt"
    /\ calls' = [calls EXCEPT ![t] = Append(@, Call("input", 3))]
    /\ session_overrides' = session_overrides \cup {filename_of(event[t])}
    /\ IF rc_temp_path[t] = None \/ fs_succeeds(fs_ok, rc_temp_path[t])
       THEN /\ disk' = IF rc_temp_path[t] = None THEN disk ELSE unlinked(rc_temp_path[t])
            /\ log' = [log EXCEPT ![t] = Append(@, "Skipping - handle manually")]
            /\ action' = [action EXCEPT ![t] = "cancel"]
            /\ pc' = [pc EXCEPT ![t] = after_resolve_pc("cancel")]
       ELSE /\ pc' = [pc EXCEPT ![t] = "raised"]
            /\ UNCHANGED <<disk, action, log>>
    /\ UNCHANGED <<ignore_patterns, check_conflicts, remote, remote_dirs, event,
                   remote_temp_path, rc_temp_path, result, retry_result>>

\* choice "3", lines 238-243 and 305-306: unlink the artifact, stop
choice_cancel(t, fs_ok) ==
    /\ pc[t] = "prompt"
    /\ calls' = [calls EXCEPT ![t] = Append(@, Call("input", 3))]
    /\ IF rc_temp_path[t] = None \/ fs_succeeds(fs_ok, rc_temp_path[t])
       THEN /\ disk' = IF rc_temp_path[t] = None THEN disk ELSE unlinked(rc_temp_path[t])
            /\ log' = [log EXCEPT ![t] = Append(@, "Skipping - handle manually")]
            /\ action' = [action EXCEPT ![t] = "cancel"]
            /\ pc' = [pc EXCEPT ![t] = after_resolve_pc("cancel")]
       ELSE /\ pc' = [pc EXCEPT ![t] = "raised"]
            /\ UNCHANGED <<disk, action, log>>
    /\ UNCHANGED <<ignore_patterns, check_conflicts, session_overrides, remote, remote_dirs, event,
                   remote_temp_path, rc_temp_path, result, retry_result>>

\* choice "4", lines 244-256 and 310-313: rename the artifact to the copy, upload
choice_copy(t, fs_ok) ==
    /\ pc[t] = "prompt"
    /\ calls' = [calls EXCEPT ![t] = Append(@, Call("input", 4))]
    /\ IF rc_temp_path[t] = None
       THEN /\ action' = [action EXCEPT ![t] = "copy"]
            /\ pc' = [pc EXCEPT ![t] = after_resolve_pc("copy")]
            /\ log' = [log EXCEPT ![t] = Append(@, "Remote copy saved. Now uploading local version")]
            /\ UNCHANGED disk
       ELSE IF fs_succeeds(fs_ok, rc_temp_path[t])
       THEN /\ disk' = replaced(rc_temp_path[t],
                                remote_copy_path_of(filename_of(event[t]), event[t].src_path))
            /\ log' = [log EXCEPT ![t] = @ \o <<"Remote copy saved as",
                                               "Remote copy saved. Now uploading local version">>]
            /\ action' = [action EXCEPT ![t] = "copy"]
            /\ pc' = [pc EXCEPT ![t] = after_resolve_pc("copy")]
       ELSE /\ pc' = [pc EXCEPT ![t] = "raised"]
            /\ UNCHANGED <<disk, action, log>>
    /\ UNCHANGED <<ignore_patterns, check_conflicts, session_overrides, remote, remote_dirs, event,
                   remote_temp_path, rc_temp_path, result, retry_result>>

-----------------------------------------------------------------------------
(* on_modified, lines 319-354: the upload and its one retry *)

upload(t, o) ==
    /\ pc[t] = "upload"
    /\ calls' = [calls EXCEPT ![t] = Append(@, Call("put",
                          IF o = "hang" THEN -1
                          ELSE IF put_succeeds(o, remote_path_of(event[t])) THEN 0 ELSE 1))]
    /\ IF o = "hang"
       THEN /\ pc' = [pc EXCEPT ![t] = "hung"]
            /\ log' = [log EXCEPT ![t] = Append(@, "Uploading")]
            /\ UNCHANGED <<remote, result>>
       ELSE IF put_succeeds(o, remote_path_of(event[t]))
       THEN /\ remote' = [remote EXCEPT ![<<remote_path_of(event[t]), filename_of(event[t])>>] =
                             disk[event[t].src_path]]
            /\ result' = [result EXCEPT ![t] = [returncode |-> 0, stderr |-> ""]]
            /\ log' = [log EXCEPT ![t] = @ \o <<"Uploading", "Successfully uploaded">>]
            /\ pc' = [pc EXCEPT ![t] = "returned"]
       ELSE /\ result' = [result EXCEPT ![t] = [returncode |-> 1, stderr |-> "put: failed"]]
            /\ log' = [log EXCEPT ![t] = @ \o <<"Uploading",
                                               "Upload failed, creating directory and retrying">>]
            /\ pc' = [pc EXCEPT ![t] = "retry"]
            /\ UNCHANGED remote
    /\ UNCHANGED <<ignore_patterns, check_conflicts, session_overrides, disk, remote_dirs, event,
                   remote_temp_path, rc_temp_path, action, retry_result>>

\* a failure line that prints the first attempt's stderr
failure_line_first(t, res, retry_res) == "Failed to upload: " \o res.stderr

\* the line printed when the retry fails too (line 352)
failure_line(t, res, retry_res) == "Failed to upload: " \o retry_res.stderr

upload_retry(t, o) ==
    /\ pc[t] = "retry"
    /\ calls' = [calls EXCEPT ![t] = Append(@, Call("mkdir+put", returncode(o)))]
    /\ IF o = "hang"
       THEN /\ pc' = [pc EXCEPT ![t] = "hung"]
            /\ UNCHANGED <<remote, remote_dirs, retry_result, log>>
       ELSE IF o = "ok"
       THEN /\ remote_dirs' = remote_dirs \cup {remote_path_of(event[t])}
            /\ remote' = [remote EXCEPT ![<<remote_path_of(event[t]), filename_of(event[t])>>] =
                             disk[event[t].src_path]]
            /\ retry_result' = [retry_result EXCEPT ![t] = [returncode |-> 0, stderr |-> ""]]
            /\ log' = [log EXCEPT ![t] = Append(@, "Successfully uploaded after creating directory")]
            /\ pc' = [pc EXCEPT ![t] = "returned"]
       ELSE /\ retry_result' = [retry_result EXCEPT ![t] =
                                   [returncode |-> 1, stderr |-> "mkdir+put: failed"]]
            /\ log' = [log EXCEPT ![t] =
                          Append(@, failure_line(t, result[t],
                                                 [returncode |-> 1, stderr |-> "mkdir+put: failed"]))]
            /\ pc' = [pc EXCEPT ![t] = "returned"]
            /\ UNCHANGED <<remote, remote_dirs>>
    /\ UNCHANGED <<ignore_patterns, check_conflicts, session_overrides, disk, event, remote_temp_path,
                   rc_temp_path, action, result>>

-----------------------------------------------------------------------------
(* The environment: the operator saves a file, another party changes the remote *)

local_write(p, c) ==
    /\ p \in UserFiles
    /\ disk[p] # c
    /\ disk' = [disk EXCEPT ![p] = c]
    /\ UNCHANGED <<ignore_patterns, check_conflicts, session_overrides, remote, remote_dirs, pc, event,
                   remote_temp_path, rc_temp_path, action, result, retry_result, calls, log>>

remote_write(f, c) ==
    /\ remote[f] # c
    /\ remote' = [remote EXCEPT ![f] = c]
    /\ remote_dirs' = IF c # Absent THEN remote_dirs \cup {f[1]} ELSE remote_dirs
    /\ UNCHANGED <<ignore_patterns, check_conflicts, session_overrides, disk, pc, event,
                   remote_temp_path, rc_temp_path, action, result, retry_result, calls, log>>

-----------------------------------------------------------------------------
(* The observer dispatches events from one thread: one on_modified at a    *)
(* time. An OSError out of os.unlink or os.replace leaves on_modified by   *)
(* an exception (pc = "raised") and ends the dispatching thread; an lftp   *)
(* that never exits blocks it for ever (pc = "hung"): neither handles a    *)
(* further event.                                                          *)

Next ==
    \/ \E e \in Events : on_modified(Dispatcher, e)
    \/ \E o \in Outcomes : probe(Dispatcher, o)
    \/ \E o \in Outcomes : fetch(Dispatcher, o)
    \/ \E fs_ok \in BOOLEAN : compare(Dispatcher, fs_ok)
    \/ \E o \in Outcomes : resolve(Dispatcher, o)
    \/ choice_invalid(Dispatcher)
    \/ \E fs_ok \in BOOLEAN : choice_upload(Dispatcher, fs_ok)
    \/ \E fs_ok \in BOOLEAN : choice_download(Dispatcher, fs_ok)
    \/ \E fs_ok \in BOOLEAN : choice_cancel(Dispatcher, fs_ok)
    \/ \E fs_ok \in BOOLEAN : choice_copy(Dispatcher, fs_ok)
    \/ \E o \in Outcomes : upload(Dispatcher, o)
    \/ \E o \in Outcomes : upload_retry(Dispatcher, o)
    \/ \E p \in UserFiles, c \in Contents : local_write(p, c)
    \/ \E f \in RemoteFiles, c \in Contents \cup {Absent} : remote_write(f, c)

Spec == Init /\ [][Next]_vars

-----------------------------------------------------------------------------
(* The Ignore Matcher on its own: the gate of on_modified applied to a wider set
   of paths under each of a set of ignore lists *)

BUILD == <<"build">>

\* ignore lists a config.json may hold
PatternConfigs ==
    { <<>>,
      IGNORE_PATTERNS,
      << BUILD \o <<SEP>> >>,
      << SUB \o <<SEP>> >>,
      << <<"*", ".log">> >>,
      << <<"src", SEP>> \o BUILD \o <<SEP>> >>,
      << SUB \o <<SEP>>, BUILD \o <<SEP>> >>,
      << join(LOCAL_DIR, BUILD) \o <<SEP>> >> }

\* relative paths at, below, beside and away from build/
IgnorePaths ==
    { A_TXT,
      BUILD,
      join(BUILD, A_TXT),
      join(BUILD, <<"x", ".log">>),
      join(join(BUILD, SUB), A_TXT),
      join(<<"build", "er">>, A_TXT),
      <<"build", "er">>,
      join(join(<<"src">>, BUILD), A_TXT),
      join(SUB, A_TXT),
      join(SUB, BUILD),
      <<"x", ".log">> }

IgnoreEvents ==
    {[is_directory |-> FALSE, src_path |-> join(LOCAL_DIR, p)] : p \in IgnorePaths}
    \cup {[is_directory |-> TRUE, src_path |-> join(LOCAL_DIR, BUILD)]}

InitIgnore ==
    /\ ignore_patterns \in PatternConfigs
    /\ fresh_session

\* the events are taken up to the branch on check_conflicts of line 285
NextIgnore == \E e \in IgnoreEvents : on_modified(Dispatcher, e)

SpecIgnore == InitIgnore /\ [][NextIgnore]_vars

-----------------------------------------------------------------------------
(* A quiet session in conflict mode: the transport works, the filesystem does
   not refuse, and nobody but the handler writes a local or a remote file *)

InitAdopt ==
    /\ ignore_patterns = IGNORE_PATTERNS
    /\ check_conflicts = TRUE
    /\ session_overrides = {}
    /\ disk = [p \in LocalPaths |-> IF p \in UserFiles THEN "c1" ELSE Absent]
    /\ remote \in [RemoteFiles -> Contents]
    /\ remote_dirs = RemoteDirs
    /\ handlers_idle

NextAdopt ==
    \/ \E e \in Events : on_modified(Dispatcher, e)
    \/ probe(Dispatcher, "ok")
    \/ fetch(Dispatcher, "ok")
    \/ compare(Dispatcher, TRUE)
    \/ resolve(Dispatcher, "ok")
    \/ choice_invalid(Dispatcher)
    \/ choice_upload(Dispatcher, TRUE)
    \/ choice_download(Dispatcher, TRUE)
    \/ choice_cancel(Dispatcher, TRUE)
    \/ choice_copy(Dispatcher, TRUE)
    \/ upload(Dispatcher, "ok")

SpecAdopt == InitAdopt /\ [][NextAdopt]_vars

-----------------------------------------------------------------------------
(* An event source that delivers concurrently: two invocations of on_modified
   run interleaved, in a quiet session where the transport works and the
   filesystem refuses nothing that is there *)

\* the overlapping invocations are for one local file
OverlapEvents == {[is_directory |-> FALSE, src_path |-> join(LOCAL_DIR, A_TXT)]}

NextOverlap ==
    \E t \in Handlers :
        \/ \E e \in OverlapEvents : on_modified(t, e)
        \/ probe(t, "ok")
        \/ fetch(t, "ok")
        \/ compare(t, TRUE)
        \/ resolve(t, "ok")
        \/ choice_invalid(t)
        \/ choice_upload(t, TRUE)
        \/ choice_download(t, TRUE)
        \/ choice_cancel(t, TRUE)
        \/ choice_copy(t, TRUE)
        \/ upload(t, "ok")

SpecOverlap == InitAdopt /\ [][NextOverlap]_vars

-----------------------------------------------------------------------------
(* Properties *)

Last(q) == q[Len(q)]

Cmds(t) == {calls[t][i].cmd : i \in 1..Len(calls[t])}

\* the invocation passed the gates of lines 261-280
Processed(t) == log[t] # <<>> /\ log[t][1] = "Processing"

UploadCmds == {"put", "mkdir+put"}

\* C1: whenever on_modified has returned, on whichever branch, no file whose name
\* carries the "_remote_temp" marker exists on the local disk.
C1_NoArtifactAfterReturn ==
    \A t \in Handlers :
        pc[t] = "returned" => \A p \in Artifacts : disk[p] = Absent

\* C1 witness: a conflict in which the resolver fetched an artifact and the operator
\* cancelled has returned.
C1_Witness ==
    /\ pc[Dispatcher] = "returned"
    /\ action[Dispatcher] = "cancel"
    /\ rc_temp_path[Dispatcher] # None

\* C2: after the resolver returned Cancel or Adopt-Remote the handler has returned
\* and ran no upload subprocess; after Upload-Local or Save-Remote-Copy the handler
\* is at the upload or has run the put.
C2_BranchOnDecision ==
    \A t \in Handlers :
        /\ action[t] \in {"cancel", "download"} =>
              pc[t] = "returned" /\ Cmds(t) \cap UploadCmds = {}
        /\ action[t] \in {"upload", "copy"} =>
              pc[t] = "upload" \/ "put" \in Cmds(t)

\* C2 witness: after Save-Remote-Copy the put has run and the handler has returned.
C2_Witness ==
    /\ pc[Dispatcher] = "returned"
    /\ action[Dispatcher] = "copy"
    /\ "put" \in Cmds(Dispatcher)

\* C3: an Upload-Local decision leaves the filename in the session overrides, and
\* an invocation in conflict mode that found its filename there (it made no
\* decision of its own) runs no ls, no get and no input: only the upload.
C3_OverrideSkipsChecks ==
    \A t \in Handlers :
        /\ action[t] = "upload" => filename_of(event[t]) \in session_overrides
        /\ ( /\ check_conflicts
             /\ Processed(t)
             /\ filename_of(event[t]) \in session_overrides
             /\ action[t] = "none"
             /\ pc[t] # "raised" )
           => /\ pc[t] \in {"upload", "retry", "returned", "hung"}
              /\ Cmds(t) \subseteq UploadCmds

\* C3 witness: in conflict mode an event for an overridden filename was uploaded
\* with a single put.
C3_Witness ==
    /\ check_conflicts
    /\ pc[Dispatcher] = "returned"
    /\ Processed(Dispatcher)
    /\ filename_of(event[Dispatcher]) \in session_overrides
    /\ action[Dispatcher] = "none"
    /\ calls[Dispatcher] = <<Call("put", 0)>>

\* C4 (as claimed): the step by which the resolver returns Adopt-Remote leaves the
\* local file equal to the comparison artifact fetched for the conflict, and leaves
\* no artifact.
C4_AdoptRemoteAsClaimed ==
    [][\A t \in Handlers :
          (action[t] # "download" /\ action'[t] = "download") =>
              /\ rc_temp_path[t] # None
              /\ disk'[event[t].src_path] = disk[rc_temp_path[t]]
              /\ \A p \in Artifacts : disk'[p] = Absent]_vars

\* C5 (as claimed): once the resolver returned Save-Remote-Copy, the copy
\* "<name>_remote<ext>" exists next to the local file, before the upload begins.
C5_CopySavedAsClaimed ==
    \A t \in Handlers :
        action[t] = "copy" =>
            disk[remote_copy_path_of(filename_of(event[t]), event[t].src_path)] # Absent

\* C6: the comparison step on an artifact equal to the local file either returns or
\* raises; when it returns, the invocation ran exactly the ls and the get (no
\* input, no put), the session overrides, the remote and the local file are
\* unchanged, and the artifact is gone.
C6_IdenticalSkips ==
    [][\A t \in Handlers :
          ( /\ pc[t] = "compare"
            /\ pc'[t] # "compare"
            /\ disk[event[t].src_path] = disk[remote_temp_path[t]] )
          => /\ pc'[t] \in {"returned", "raised"}
             /\ pc'[t] = "returned" =>
                   /\ calls'[t] = <<Call("ls", 0), Call("get", 0)>>
                   /\ session_overrides' = session_overrides
                   /\ remote' = remote
                   /\ disk'[event[t].src_path] = disk[event[t].src_path]
                   /\ disk'[remote_temp_path[t]] = Absent]_vars

\* C6 witness: the handler returned on the identical-content branch.
C6_Witness ==
    /\ pc[Dispatcher] = "returned"
    /\ log[Dispatcher] # <<>>
    /\ Last(log[Dispatcher]) = "Files are identical. Skipping upload"
    /\ calls[Dispatcher] = <<Call("ls", 0), Call("get", 0)>>

\* C7: a probe that returns while the listing failed (exit status not 0) or no
\* listing line contains the filename sends the handler straight to the upload: the
\* ls is the only call so far, the disk is untouched, the resolver was not run.
C7_AbsentGoesToUpload ==
    [][\A t \in Handlers :
          ( /\ pc[t] = "probe"
            /\ pc'[t] \notin {"probe", "hung"}
            /\ \/ Last(calls'[t]).ret # 0
               \/ ~ \E line \in listing(remote_path_of(event[t])) :
                       Contains(line, filename_of(event[t])) )
          => /\ pc'[t] = "upload"
             /\ Len(calls'[t]) = 1
             /\ calls'[t][1].cmd = "ls"
             /\ disk' = disk
             /\ action'[t] = "none"]_vars

\* C7 witness: the listing failed and the handler stands at the upload.
C7_Witness ==
    /\ check_conflicts
    /\ pc[Dispatcher] = "upload"
    /\ calls[Dispatcher] = <<Call("ls", 1)>>

\* C8: with conflict checking off, an invocation that passed the gates is at the
\* upload or beyond, runs nothing but put commands, and when its first put exits 0
\* that put is its only call, it has returned and its last line reports success.
C8_NoConflictModeUploadsDirectly ==
    ~check_conflicts =>
        \A t \in Handlers :
            /\ Cmds(t) \subseteq UploadCmds
            /\ Processed(t) => pc[t] \in {"upload", "retry", "returned", "hung"}
            /\ (calls[t] # <<>> /\ calls[t][1].ret = 0) =>
                  /\ calls[t] = <<Call("put", 0)>>
                  /\ pc[t] = "returned"
                  /\ Last(log[t]) = "Successfully uploaded"

\* C8 witness: conflict checking off, one put, exit 0, returned.
C8_Witness ==
    /\ ~check_conflicts
    /\ pc[Dispatcher] = "returned"
    /\ calls[Dispatcher] = <<Call("put", 0)>>

\* the upload subprocesses of an invocation, in order
Uploads(t) == SelectSeq(calls[t], LAMBDA c : c.cmd \in UploadCmds)

ReportsSuccess(t) ==
    \E i \in 1..Len(log[t]) :
        log[t][i] \in {"Successfully uploaded", "Successfully uploaded after creating directory"}

\* C9: an invocation runs at most two upload subprocesses; the first is the put,
\* the second exists only after the put failed and is mkdir followed by put; a
\* returned invocation whose put failed did run the retry; it reports success
\* exactly when one of the two exited 0, and otherwise its last line carries the
\* second attempt's stderr.
C9_RetryOnce ==
    \A t \in Handlers :
        LET ups == Uploads(t)
        IN  /\ Len(ups) <= 2
            /\ Len(ups) >= 1 => ups[1].cmd = "put"
            /\ Len(ups) = 2 => ups[1].ret = 1 /\ ups[2].cmd = "mkdir+put"
            /\ (pc[t] = "returned" /\ Len(ups) >= 1) =>
                  /\ ups[1].ret = 1 => Len(ups) = 2
                  /\ ReportsSuccess(t) <=> \E i \in 1..Len(ups) : ups[i].ret = 0
                  /\ ~ReportsSuccess(t) =>
                        Last(log[t]) = "Failed to upload: " \o retry_result[t].stderr

\* C9 witness: both attempts failed and the handler returned.
C9_Witness ==
    /\ pc[Dispatcher] = "returned"
    /\ Len(Uploads(Dispatcher)) = 2
    /\ Uploads(Dispatcher)[2].ret = 1

\* C10: the session overrides change only in the step in which the operator
\* answers "1" at the prompt, and that step adds the filename of the event and
\* nothing else; no step removes an entry.
C10_OnlyUploadLocalAddsOverride ==
    [][ /\ session_overrides \subseteq session_overrides'
        /\ session_overrides' # session_overrides =>
              \E t \in Handlers :
                  /\ pc[t] = "prompt"
                  /\ calls'[t] = Append(calls[t], Call("input", 1))
                  /\ session_overrides' = session_overrides \cup {filename_of(event[t])} ]_vars

\* C10 witness: the invocation that recorded the override went on through the
\* upload and its retry and returned with the override in place.
C10_Witness ==
    /\ session_overrides = {filename_of(event[Dispatcher])}
    /\ pc[Dispatcher] = "returned"
    /\ action[Dispatcher] = "upload"
    /\ Len(Uploads(Dispatcher)) = 2

\* C11: while the resolver waits for a decision, an input that is none of "1".."4"
\* only prompts again: the invocation stays at the prompt, and the session
\* overrides, the artifact, the local file and the remote are what they were,
\* however many invalid inputs came before
C11_InvalidInputChangesNothing ==
    [][\A t \in Handlers :
        (pc[t] = "prompt" /\ calls'[t] = Append(calls[t], Call("input", 0)))
        => /\ pc'[t] = "prompt"
           /\ UNCHANGED <<session_overrides, disk, remote, remote_dirs,
                          rc_temp_path, action>>]_vars

C11_Witness ==
    /\ pc[Dispatcher] = "prompt"
    /\ rc_temp_path[Dispatcher] # None
    /\ disk[rc_temp_path[Dispatcher]] # Absent
    /\ Len(calls[Dispatcher]) >= 2
    /\ calls[Dispatcher][Len(calls[Dispatcher])] = Call("input", 0)
    /\ calls[Dispatcher][Len(calls[Dispatcher]) - 1] = Call("input", 0)

\* every step the handler t can take
handler_step(t) ==
    \/ \E e \in Events : on_modified(t, e)
    \/ \E o \in Outcomes : probe(t, o) \/ fetch(t, o) \/ resolve(t, o)
                           \/ upload(t, o) \/ upload_retry(t, o)
    \/ choice_invalid(t)
    \/ \E fs_ok \in BOOLEAN : compare(t, fs_ok) \/ choice_upload(t, fs_ok)
                              \/ choice_download(t, fs_ok) \/ choice_cancel(t, fs_ok)
                              \/ choice_copy(t, fs_ok)

\* C12: a subprocess call made while an event is handled is bounded: a handler
\* whose lftp does not exit is never left without a step to take (the call ends
\* and counts as a failure)
C12_SubprocessCallsBounded ==
    \A t \in Handlers : pc[t] = "hung" => ENABLED handler_step(t)

\* C13: no error met while an event is handled leaves the handler as an
\* exception: the handler returns and the next event is taken
C13_NoErrorEscapes ==
    \A t \in Handlers : pc[t] # "raised"

\* C14: when the os.replace of Adopt-Remote fails, the local file is left as it
\* was, the failure shows as the OSError (it is not swallowed), and nothing is
\* uploaded, in that step or after it
C14_FailedReplaceLeavesLocal ==
    [][\A t \in Handlers :
        /\ (/\ pc[t] = "prompt"
            /\ rc_temp_path[t] # None
            /\ calls'[t] = Append(calls[t], Call("input", 2))
            /\ action'[t] # "download")
           => /\ pc'[t] = "raised"
              /\ UNCHANGED <<disk, remote, remote_dirs, session_overrides>>
        /\ pc[t] = "raised" => pc'[t] = "raised" /\ calls'[t] = calls[t]]_vars

C14_Witness ==
    /\ pc[Dispatcher] = "raised"
    /\ Last(calls[Dispatcher]) = Call("input", 2)
    /\ disk[event[Dispatcher].src_path] # Absent
    /\ Cmds(Dispatcher) \cap UploadCmds = {}

\* the line on_modified prints for an event the Ignore Matcher matched (line 279)
Skipped(t) == log[t] = <<"Skipping ignored path">>

\* rel is the directory d or a path below it
AtOrBelow(rel, d) ==
    \/ rel = d
    \/ Len(rel) > Len(d) + 1 /\ SubSeq(rel, 1, Len(d) + 1) = d \o <<SEP>>

\* a relative pattern with a trailing separator
DirectoryStyle(pat) == pat # <<>> /\ pat[Len(pat)] = SEP /\ pat[1] # SEP

\* C16: a directory-style pattern makes is_ignored true of the relative path that
\* is the directory and of every path below it, and a list that holds only that
\* pattern matches no other path (build/ matches neither builder/a.txt nor
\* src/build/a.txt)
C16_DirectoryPatternMatchesSubtreeOnly ==
    \A t \in Handlers :
        (Skipped(t) \/ Processed(t)) =>
            LET rel == rel_path_of(event[t])
            IN  /\ \A i \in 1..Len(ignore_patterns) :
                      ( /\ DirectoryStyle(ignore_patterns[i])
                        /\ AtOrBelow(rel, SubSeq(ignore_patterns[i], 1,
                                                 Len(ignore_patterns[i]) - 1)) )
                      => Skipped(t)
                /\ ( /\ Len(ignore_patterns) = 1
                     /\ DirectoryStyle(ignore_patterns[1])
                     /\ Skipped(t) )
                   => AtOrBelow(rel, SubSeq(ignore_patterns[1], 1,
                                            Len(ignore_patterns[1]) - 1))

C16_Witness ==
    /\ ignore_patterns = << BUILD \o <<SEP>> >>
    /\ Processed(Dispatcher)
    /\ rel_path_of(event[Dispatcher]) = join(<<"build", "er">>, A_TXT)

\* the events on_modified drops: lines 261-262, 265-267, 278-280
Dropped(e) ==
    \/ e.is_directory
    \/ Contains(filename_of(e), <<MARKER>>)
    \/ is_ignored(rel_path_of(e), filename_of(e), e.src_path)

\* C17: a directory event, an event for a name holding "_remote_temp" and an event
\* for an ignored path end the invocation at once: no lftp call, no prompt, and the
\* local files, the remote and the session overrides are untouched
C17_DroppedEventHasNoEffect ==
    [][\A t \in Handlers :
        ( /\ pc[t] \in {"idle", "returned"}
          /\ <<pc[t], event[t], log[t], calls[t]>>' # <<pc[t], event[t], log[t], calls[t]>>
          /\ Dropped(event'[t]) )
        => /\ pc'[t] = "returned"
           /\ calls'[t] = <<>>
           /\ log'[t] \in {<<>>, <<"Skipping ignored path">>}
           /\ UNCHANGED <<disk, remote, remote_dirs, session_overrides>>]_vars

C17_Witness ==
    /\ pc[Dispatcher] = "returned"
    /\ Contains(filename_of(event[Dispatcher]), <<MARKER>>)
    /\ session_overrides # {}
    /\ calls[Dispatcher] = <<>>
    /\ log[Dispatcher] = <<>>

C19_OverrideKeyedByBasename ==
    \A t \in Handlers :
        ( /\ check_conflicts
          /\ Processed(t)
          /\ filename_of(event[t]) \in session_overrides
          /\ remote_path_of(event[t]) \notin remote_dirs )
        => /\ Len(log[t]) >= 2 /\ log[t][2] = "Auto-overriding (session choice)"
           /\ pc[t] \in {"upload", "retry", "returned", "hung"}
           /\ Cmds(t) \subseteq UploadCmds
           /\ action[t] = "none"

C19_Witness ==
    /\ check_conflicts
    /\ session_overrides = {A_TXT}
    /\ event[Dispatcher].src_path = join(join(LOCAL_DIR, SUB), A_TXT)
    /\ remote_path_of(event[Dispatcher]) \notin remote_dirs
    /\ pc[Dispatcher] = "retry"
    /\ calls[Dispatcher] = <<Call("put", 1)>>

\* the remote file an event's local file is mapped to
remote_file_of(p) ==
    LET e == [is_directory |-> FALSE, src_path |-> p]
    IN  <<remote_path_of(e), filename_of(e)>>

\* C20 (as claimed): in a quiet session an event for a local file that
\* Adopt-Remote has rewritten causes no prompt and no upload: it is probed,
\* fetched, compared and returns on the identical-content branch
C20_AsClaimed ==
    \A t \in Handlers :
        ( /\ Processed(t)
          /\ action[t] = "none"
          /\ disk[event[t].src_path] # "c1" )
        => /\ pc[t] \in {"probe", "fetch", "compare", "returned"}
           /\ Cmds(t) \subseteq {"ls", "get"}

\* C20 (amended): in a quiet session a local file is rewritten only by
\* Adopt-Remote, which leaves it equal to the remote file; an event for a local
\* file so rewritten, whose basename no Upload-Local has put in the session
\* overrides meanwhile, is probed, fetched and compared and returns on the
\* identical-content branch with no prompt and no upload
C20_AdoptedFileIsSkipped ==
    /\ [](\A t \in Handlers :
            ( /\ Processed(t)
              /\ action[t] = "none"
              /\ disk[event[t].src_path] # "c1"
              /\ filename_of(event[t]) \notin session_overrides )
            => /\ pc[t] \in {"probe", "fetch", "compare", "returned"}
               /\ Cmds(t) \subseteq {"ls", "get"}
               /\ pc[t] = "returned" =>
                    /\ calls[t] = <<Call("ls", 0), Call("get", 0)>>
                    /\ Last(log[t]) = "Files are identical. Skipping upload")
    /\ [][\A p \in UserFiles :
            disk'[p] # disk[p]
            => /\ \E t \in Handlers :
                    /\ event[t].src_path = p
                    /\ calls'[t] = Append(calls[t], Call("input", 2))
               /\ disk'[p] = remote'[remote_file_of(p)]]_vars

C20_Witness ==
    /\ pc[Dispatcher] = "returned"
    /\ Processed(Dispatcher)
    /\ action[Dispatcher] = "none"
    /\ disk[event[Dispatcher].src_path] = "c2"
    /\ filename_of(event[Dispatcher]) \notin session_overrides
    /\ calls[Dispatcher] = <<Call("ls", 0), Call("get", 0)>>
    /\ Last(log[Dispatcher]) = "Files are identical. Skipping upload"

\* C15: nothing keeps a second invocation for a file from starting while a first
\* one is in flight, and two invocations for one local file hold the same
\* artifact path; the witness is the interleaving in which the artifact one
\* invocation fetched is gone before that invocation compares it
C15_NoSerializationPerFilename ==
    \A t \in Handlers : \A u \in Handlers \ {t} :
        /\ (t \in InFlight /\ pc[u] \in {"idle", "returned"})
           => ENABLED on_modified(u, event[t])
        /\ ( /\ event[t].src_path = event[u].src_path
             /\ remote_temp_path[t] # None
             /\ remote_temp_path[u] # None )
           => remote_temp_path[t] = remote_temp_path[u]

C15_Witness ==
    /\ event["h1"].src_path = event["h2"].src_path
    /\ pc["h1"] = "compare"
    /\ remote_temp_path["h1"] # None
    /\ remote_temp_path["h2"] = remote_temp_path["h1"]
    /\ disk[remote_temp_path["h1"]] = Absent
    /\ pc["h2"] = "resolve"

====
